---- MODULE Spec2Model ----
(***************************************************************************)
(* Genre Analysis Service (service_c.py).                                  *)
(*                                                                         *)
(* The service is a set of read-only HTTP handlers.  Every request reads   *)
(* movies.json (and, for the per-user endpoint, history.json) afresh,      *)
(* aggregates, and answers.  The state is the content of the two files     *)
(* and the answer to the latest request.                                   *)
(*                                                                         *)
(* Python values are represented as follows:                               *)
(*   str      a sequence of one-character strings, <<"1","9","9","9">>     *)
(*   list     a sequence                                                   *)
(*   dict     a function on its keys (a movie is a record that has a       *)
(*            "genre" and/or a "release_date" field)                       *)
(*   Counter  the sequence of its <<key, count>> items in insertion        *)
(*            order, which is the order dict iteration has                 *)
(*   {} / []  both the empty sequence << >>                                *)
(* An exception is a record [exc |-> <type>, msg |-> <str(e)>].            *)
(* The "timestamp" field of the answers is left out: it is the wall clock. *)
(***************************************************************************)
EXTENDS Integers, Sequences, FiniteSets, TLC

VARIABLES moviesFile, historyFile, response

vars == <<moviesFile, historyFile, response>>

----------------------------------------------------------------------------
(* Python strings *)

\* The characters in use, each with its code point; Ord(c) is the code point of c.
CodePoints ==
    { <<" ", 32>>, <<"+", 43>>, <<"-", 45>>, <<".", 46>>, <<"/", 47>>, <<"0", 48>>,
      <<"1", 49>>, <<"2", 50>>, <<"3", 51>>, <<"4", 52>>, <<"5", 53>>, <<"6", 54>>,
      <<"7", 55>>, <<"8", 56>>, <<"9", 57>>, <<":", 58>>, <<"A", 65>>, <<"B", 66>>,
      <<"C", 67>>, <<"D", 68>>, <<"E", 69>>, <<"F", 70>>, <<"G", 71>>, <<"H", 72>>,
      <<"I", 73>>, <<"J", 74>>, <<"K", 75>>, <<"L", 76>>, <<"M", 77>>, <<"N", 78>>,
      <<"O", 79>>, <<"P", 80>>, <<"Q", 81>>, <<"R", 82>>, <<"S", 83>>, <<"T", 84>>,
      <<"U", 85>>, <<"V", 86>>, <<"W", 87>>, <<"X", 88>>, <<"Y", 89>>, <<"Z", 90>>,
      <<"_", 95>>, <<"a", 97>>, <<"b", 98>>, <<"c", 99>>, <<"d", 100>>, <<"e", 101>>,
      <<"f", 102>>, <<"g", 103>>, <<"h", 104>>, <<"i", 105>>, <<"j", 106>>, <<"k", 107>>,
      <<"l", 108>>, <<"m", 109>>, <<"n", 110>>, <<"o", 111>>, <<"p", 112>>, <<"q", 113>>,
      <<"r", 114>>, <<"s", 115>>, <<"t", 116>>, <<"u", 117>>, <<"v", 118>>, <<"w", 119>>,
      <<"x", 120>>, <<"y", 121>>, <<"z", 122>> }

OrdTable == [c \in {p[1] : p \in CodePoints} |-> (CHOOSE p \in CodePoints : p[1] = c)[2]]

Ord(c) == OrdTable[c]

Digits == <<"0", "1", "2", "3", "4", "5", "6", "7", "8", "9">>

IsDigit(c) == \E i \in 1..10 : Digits[i] = c

DigitValue(c) == (CHOOSE i \in 1..10 : Digits[i] = c) - 1

\* str < str: lexicographic on code points, a proper prefix is smaller.
RECURSIVE StrLessFrom(_, _, _)
StrLessFrom(a, b, i) ==
    IF i > Len(b) THEN FALSE
    ELSE IF i > Len(a) THEN TRUE
    ELSE IF Ord(a[i]) < Ord(b[i]) THEN TRUE
    ELSE IF Ord(a[i]) > Ord(b[i]) THEN FALSE
    ELSE StrLessFrom(a, b, i + 1)

StrLess(a, b) == StrLessFrom(a, b, 1)

\* s.split(sep) for a one-character separator: the list of the pieces.
RECURSIVE SplitFrom(_, _, _, _)
SplitFrom(s, sep, i, piece) ==
    IF i > Len(s) THEN <<piece>>
    ELSE IF s[i] = sep THEN <<piece>> \o SplitFrom(s, sep, i + 1, <<>>)
    ELSE SplitFrom(s, sep, i + 1, Append(piece, s[i]))

Split(s, sep) == SplitFrom(s, sep, 1, <<>>)

\* s.strip() over the blank of the alphabet.
RECURSIVE LStrip(_)
LStrip(s) == IF s # <<>> /\ Head(s) = " " THEN LStrip(Tail(s)) ELSE s

RECURSIVE RStrip(_)
RStrip(s) ==
    IF s # <<>> /\ s[Len(s)] = " " THEN RStrip(SubSeq(s, 1, Len(s) - 1)) ELSE s

Strip(s) == LStrip(RStrip(s))

\* A computation yields [val |-> v] or raises: [exc |-> type, msg |-> str(e)].
Raised(r) == "exc" \in DOMAIN r

ValueError == [exc |-> "ValueError", msg |-> "invalid literal for int() with base 10"]

\* The digits of an int literal: groups of digits, single underscores between them.
RECURSIVE IsDigitGroups(_, _)
IsDigitGroups(s, i) ==
    IF i > Len(s) THEN FALSE
    ELSE IF ~IsDigit(s[i]) THEN FALSE
    ELSE IF i = Len(s) THEN TRUE
    ELSE IF s[i + 1] = "_" THEN IsDigitGroups(s, i + 2)
    ELSE IsDigitGroups(s, i + 1)

RECURSIVE DigitsValue(_, _, _)
DigitsValue(s, i, acc) ==
    IF i > Len(s) THEN acc
    ELSE IF s[i] = "_" THEN DigitsValue(s, i + 1, acc)
    ELSE DigitsValue(s, i + 1, acc * 10 + DigitValue(s[i]))

\* int(s): surrounding blanks, an optional sign, then the digits; ValueError otherwise.
Int_(s) ==
    LET t == Strip(s)
        signed == t # <<>> /\ Head(t) \in {"+", "-"}
        d == IF signed THEN Tail(t) ELSE t
    IN  IF ~IsDigitGroups(d, 1) THEN ValueError
        ELSE IF signed /\ Head(t) = "-" THEN [val |-> 0 - DigitsValue(d, 1, 0)]
        ELSE [val |-> DigitsValue(d, 1, 0)]

\* str(n) / f"{n}" of an int.
RECURSIVE NatStr(_)
NatStr(n) == IF n < 10 THEN <<Digits[n + 1]>> ELSE Append(NatStr(n \div 10), Digits[(n % 10) + 1])

Str(n) == IF n < 0 THEN <<"-">> \o NatStr(0 - n) ELSE NatStr(n)

----------------------------------------------------------------------------
(* Python containers *)

Take(seq, n) == SubSeq(seq, 1, IF n < Len(seq) THEN n ELSE Len(seq))

\* counter[key] += 1: a new key goes to the end of the dict.
CounterIncr(counter, key) ==
    IF \E i \in 1..Len(counter) : counter[i][1] = key
    THEN LET i == CHOOSE j \in 1..Len(counter) : counter[j][1] = key
         IN  [counter EXCEPT ![i] = <<key, counter[i][2] + 1>>]
    ELSE Append(counter, <<key, 1>>)

\* Counter(keys): the keys are counted in list order.
RECURSIVE CounterFrom(_, _, _)
CounterFrom(keys, i, counter) ==
    IF i > Len(keys) THEN counter
    ELSE CounterFrom(keys, i + 1, CounterIncr(counter, keys[i]))

Counter(keys) == CounterFrom(keys, 1, <<>>)

CounterKeys(counter) == {counter[i][1] : i \in 1..Len(counter)}

RECURSIVE SumValues(_)
SumValues(counter) ==
    IF counter = <<>> THEN 0 ELSE counter[1][2] + SumValues(Tail(counter))

\* (genre, count) < (genre, count) as Python compares tuples.
ItemLess(a, b) == StrLess(a[1], b[1]) \/ (a[1] = b[1] /\ a[2] < b[2])

\* sorted(counter.items()) keyed by str; sorted() is stable.
RECURSIVE InsertItem(_, _)
InsertItem(sorted, x) ==
    IF sorted = <<>> THEN <<x>>
    ELSE IF ItemLess(x, Head(sorted)) THEN <<x>> \o sorted
    ELSE <<Head(sorted)>> \o InsertItem(Tail(sorted), x)

RECURSIVE SortedItemsFrom(_, _, _)
SortedItemsFrom(items, i, acc) ==
    IF i > Len(items) THEN acc
    ELSE SortedItemsFrom(items, i + 1, InsertItem(acc, items[i]))

\* The items left in the order of the dict.
UnsortedItems(items) == items

SortedItems(items) == SortedItemsFrom(items, 1, <<>>)

\* sorted(decades.items()) keyed by int: the decades are distinct keys.
RECURSIVE InsertDecade(_, _)
InsertDecade(sorted, x) ==
    IF sorted = <<>> THEN <<x>>
    ELSE IF x[1] < Head(sorted)[1] THEN <<x>> \o sorted
    ELSE <<Head(sorted)>> \o InsertDecade(Tail(sorted), x)

RECURSIVE SortedDecadesFrom(_, _, _)
SortedDecadesFrom(items, i, acc) ==
    IF i > Len(items) THEN acc
    ELSE SortedDecadesFrom(items, i + 1, InsertDecade(acc, items[i]))

SortedDecades(items) == SortedDecadesFrom(items, 1, <<>>)

\* sorted(items, key=itemgetter(1), reverse=True): equal counts keep their order.
RECURSIVE InsertByCount(_, _)
InsertByCount(sorted, x) ==
    IF sorted = <<>> THEN <<x>>
    ELSE IF x[2] > Head(sorted)[2] THEN <<x>> \o sorted
    ELSE <<Head(sorted)>> \o InsertByCount(Tail(sorted), x)

RECURSIVE ByCountFrom(_, _, _)
ByCountFrom(items, i, acc) ==
    IF i > Len(items) THEN acc
    ELSE ByCountFrom(items, i + 1, InsertByCount(acc, items[i]))

\* counter.most_common()
MostCommonAll(counter) == ByCountFrom(counter, 1, <<>>)

\* The n most common with equal counts in name order.
MostCommonTiesByName(counter, n) == Take(ByCountFrom(SortedItems(counter), 1, <<>>), n)

\* counter.most_common(n)
MostCommon(counter, n) == Take(MostCommonAll(counter), n)

\* list(a_set): the iteration order of a set of str is not determined.
RECURSIVE ListsOfSet(_)
ListsOfSet(S) ==
    IF S = {} THEN {<<>>}
    ELSE UNION {{<<x>> \o rest : rest \in ListsOfSet(S \ {x})} : x \in S}

ZeroDivisionError == [exc |-> "ZeroDivisionError", msg |-> "division by zero"]

\* d[key]: the value, or KeyError whose str() is the repr of the key.
GetItem(d, key) ==
    IF key \in DOMAIN d THEN [val |-> d[key]]
    ELSE [exc |-> "KeyError", msg |-> "'" \o key \o "'"]

\* round(x, 1) of the exact quotient num / den, in tenths, ties to even
\* (no quotient of the model's sizes is a tie, nor within a float error of one).
RoundTenths(num, den) ==
    LET q == (num * 10) \div den
        r == (num * 10) % den
    IN  IF 2 * r > den THEN q + 1
        ELSE IF 2 * r = den THEN q + (q % 2)
        ELSE q

\* round((count / total) * 100, 1), in tenths of a percent (667 is 66.7).
Percentage(count, total) ==
    IF total = 0 THEN ZeroDivisionError ELSE [val |-> RoundTenths(count * 100, total)]

----------------------------------------------------------------------------
(* The data files and the answers *)

\* read_json_file: the parsed content, or {} when the file is missing or is not JSON.
read_json_file(file) == IF file.kind = "ok" THEN file.data ELSE <<>>

\* jsonify(body), status
Reply(request, status, body) == [request |-> request, status |-> status, body |-> body]

\* return jsonify({"error": "Could not read movies data"}), 500
CouldNotRead(request) == Reply(request, 500, [error |-> "Could not read movies data"])

\* except Exception as e: return jsonify({"error": str(e)}), 500
Failed(request, e) == Reply(request, 500, [error |-> e.msg])

NoResponse == Reply([endpoint |-> "none"], 0, [none |-> TRUE])

\* [movie['genre'] for movie in movies]: the first movie without the key raises.
GenreColumn(movies) ==
    IF \E i \in 1..Len(movies) : Raised(GetItem(movies[i], "genre"))
    THEN GetItem(movies[CHOOSE i \in 1..Len(movies) : Raised(GetItem(movies[i], "genre"))], "genre")
    ELSE [val |-> [i \in 1..Len(movies) |-> movies[i].genre]]

\* [{"name": genre, "count": count} for genre, count in items]
NameCount(items) == [i \in 1..Len(items) |-> [name |-> items[i][1], count |-> items[i][2]]]

----------------------------------------------------------------------------
(* GET /genres *)

ListRequest == [endpoint |-> "/genres"]

\* list_genres without "if not movies": the empty catalog is aggregated.
list_genres_unguarded(file) ==
    LET column == GenreColumn(read_json_file(file))
    IN  IF Raised(column) THEN Failed(ListRequest, column)
        ELSE Reply(ListRequest, 200,
                   [genres |-> NameCount(SortedItems(Counter(column.val))),
                    total_movies |-> Len(read_json_file(file))])

list_genres_reply(file) ==
    LET movies == read_json_file(file)
        column == GenreColumn(movies)
    IN  IF movies = <<>> THEN CouldNotRead(ListRequest)
        ELSE IF Raised(column) THEN Failed(ListRequest, column)
        ELSE Reply(ListRequest, 200,
                   [genres |-> NameCount(SortedItems(Counter(column.val))),
                    total_movies |-> Len(movies)])

list_genres ==
    /\ response' = list_genres_reply(moviesFile)
    /\ UNCHANGED <<moviesFile, historyFile>>

----------------------------------------------------------------------------
(* GET /genres/popular *)

PopularRequest == [endpoint |-> "/genres/popular"]

PopularLimit == 5

\* The percentages taken of the counted items instead of the given total.
WithPercentageOfCounted(items, total) ==
    IF \E i \in 1..Len(items) : Raised(Percentage(items[i][2], SumValues(items)))
    THEN ZeroDivisionError
    ELSE [val |-> [i \in 1..Len(items) |->
                     [name |-> items[i][1], count |-> items[i][2],
                      percentage |-> Percentage(items[i][2], SumValues(items)).val]]]

\* [{"name", "count", "percentage": round((count / len(movies)) * 100, 1)} for ...]
WithPercentage(items, total) ==
    IF \E i \in 1..Len(items) : Raised(Percentage(items[i][2], total))
    THEN ZeroDivisionError
    ELSE [val |-> [i \in 1..Len(items) |->
                     [name |-> items[i][1], count |-> items[i][2],
                      percentage |-> Percentage(items[i][2], total).val]]]

\* popular_genres without "if not movies".
popular_genres_unguarded(file) ==
    LET column == GenreColumn(read_json_file(file))
        popular == WithPercentage(MostCommon(Counter(column.val), PopularLimit),
                                  Len(read_json_file(file)))
    IN  IF Raised(column) THEN Failed(PopularRequest, column)
        ELSE IF Raised(popular) THEN Failed(PopularRequest, popular)
        ELSE Reply(PopularRequest, 200,
                   [popular_genres |-> popular.val, total_movies |-> Len(read_json_file(file))])

popular_genres_reply(file) ==
    LET movies == read_json_file(file)
        column == GenreColumn(movies)
        popular == WithPercentage(MostCommon(Counter(column.val), PopularLimit), Len(movies))
    IN  IF movies = <<>> THEN CouldNotRead(PopularRequest)
        ELSE IF Raised(column) THEN Failed(PopularRequest, column)
        ELSE IF Raised(popular) THEN Failed(PopularRequest, popular)
        ELSE Reply(PopularRequest, 200,
                   [popular_genres |-> popular.val, total_movies |-> Len(movies)])

popular_genres ==
    /\ response' = popular_genres_reply(moviesFile)
    /\ UNCHANGED <<moviesFile, historyFile>>

----------------------------------------------------------------------------
(* GET /genres/analysis *)

AnalysisRequest == [endpoint |-> "/genres/analysis"]

DecadeTop == 3

\* year = int(movie['release_date'].split('-')[0]); decade = (year // 10) * 10
DecadeOf(movie) ==
    LET date == GetItem(movie, "release_date")
        year == Int_(Split(date.val, "-")[1])
    IN  IF Raised(date) THEN date
        ELSE IF Raised(year) THEN year
        ELSE [val |-> (year.val \div 10) * 10]

\* except (ValueError, IndexError): continue
SkippedInLoop(e) == e.exc \in {"ValueError", "IndexError"}

\* decades[decade][genre] += 1, after "if decade not in decades: decades[decade] = Counter()"
DecadesIncr(decades, decade, genre) ==
    LET known == IF \E k \in 1..Len(decades) : decades[k][1] = decade
                 THEN decades ELSE Append(decades, <<decade, <<>>>>)
        k == CHOOSE j \in 1..Len(known) : known[j][1] = decade
    IN  [known EXCEPT ![k] = <<decade, CounterIncr(known[k][2], genre)>>]

\* for movie in movies: a date int() refuses is skipped, any other exception leaves the loop.
RECURSIVE DecadesFrom(_, _, _)
DecadesFrom(movies, i, decades) ==
    IF i > Len(movies) THEN [val |-> decades]
    ELSE LET decade == DecadeOf(movies[i])
             genre == GetItem(movies[i], "genre")
         IN  IF Raised(decade)
             THEN IF SkippedInLoop(decade) THEN DecadesFrom(movies, i + 1, decades)
                  ELSE decade
             ELSE IF Raised(genre) THEN genre
             ELSE DecadesFrom(movies, i + 1, DecadesIncr(decades, decade.val, genre.val))

Decades(movies) == DecadesFrom(movies, 1, <<>>)

\* One entry of decade_analysis.
DecadeEntry(decade, counts) ==
    [decade |-> Str(decade) \o <<"s">>,
     top_genres |-> NameCount(MostCommon(counts, DecadeTop)),
     total_movies |-> SumValues(counts)]

DecadeAnalysis(decades) ==
    LET items == SortedDecades(decades)
    IN  [i \in 1..Len(items) |-> DecadeEntry(items[i][1], items[i][2])]

genre_analysis_reply(file) ==
    LET movies == read_json_file(file)
        column == GenreColumn(movies)
        decades == Decades(movies)
    IN  IF movies = <<>> THEN CouldNotRead(AnalysisRequest)
        ELSE IF Raised(column) THEN Failed(AnalysisRequest, column)
        ELSE IF Raised(decades) THEN Failed(AnalysisRequest, decades)
        ELSE Reply(AnalysisRequest, 200,
                   [genres |-> NameCount(SortedItems(Counter(column.val))),
                    decades |-> DecadeAnalysis(decades.val),
                    total_movies |-> Len(movies)])

genre_analysis ==
    /\ response' = genre_analysis_reply(moviesFile)
    /\ UNCHANGED <<moviesFile, historyFile>>

----------------------------------------------------------------------------
(* GET /genres/user/<int:user_id> *)

UserRequest(user_id) == [endpoint |-> "/genres/user", user_id |-> user_id]

TopGenres == 3

Suggested == 3

\* history.get(str(user_id), [])
UserHistory(history, user_id) ==
    IF Str(user_id) \in DOMAIN history THEN history[Str(user_id)] ELSE <<>>

\* [movie['genre'] for movie in user_history if 'genre' in movie]
HistoryGenres(user_history) ==
    LET tagged == SelectSeq(user_history, LAMBDA movie : "genre" \in DOMAIN movie)
    IN  [i \in 1..Len(tagged) |-> tagged[i].genre]

\* The empty history answered as an error.
NoHistoryNotFound(user_id) ==
    Reply(UserRequest(user_id), 404, [error |-> "No watch history found for this user"])

\* jsonify of the empty-history answer
NoHistory(user_id) ==
    Reply(UserRequest(user_id), 200,
          [user_id |-> user_id,
           message |-> "No watch history found for this user",
           genres |-> <<>>,
           recommendations |-> <<>>])

\* all_genres, the watched ones not taken out.
UnwatchedAll(column, genre_counts) == {column[i] : i \in 1..Len(column)}

\* all_genres - set(genre_counts.keys())
Unwatched(column, genre_counts) ==
    {column[i] : i \in 1..Len(column)} \ CounterKeys(genre_counts)

\* The answers the handler can give: one for each iteration order of unwatched_genres.
user_genre_analysis_replies(user_id, mfile, hfile) ==
    LET request == UserRequest(user_id)
        movies == read_json_file(mfile)
        user_history == UserHistory(read_json_file(hfile), user_id)
        genre_counts == Counter(HistoryGenres(user_history))
        ranked == MostCommonAll(genre_counts)
        column == GenreColumn(movies)
        breakdown == WithPercentage(ranked, Len(user_history))
    IN  IF movies = <<>> THEN {CouldNotRead(request)}
        ELSE IF user_history = <<>> THEN {NoHistory(user_id)}
        ELSE IF Raised(column) THEN {Failed(request, column)}
        ELSE IF Raised(breakdown) THEN {Failed(request, breakdown)}
        ELSE {Reply(request, 200,
                    [user_id |-> user_id,
                     watched_movies |-> Len(user_history),
                     genre_breakdown |-> breakdown.val,
                     top_genres |-> Take([i \in 1..Len(ranked) |-> ranked[i][1]], TopGenres),
                     suggested_new_genres |-> Take(order, Suggested)]) :
                order \in ListsOfSet(Unwatched(column.val, genre_counts))}

user_genre_analysis(user_id) ==
    /\ response' \in user_genre_analysis_replies(user_id, moviesFile, historyFile)
    /\ UNCHANGED <<moviesFile, historyFile>>

----------------------------------------------------------------------------
(* The data the files may hold *)

Action == <<"A", "c", "t", "i", "o", "n">>
Drama == <<"D", "r", "a", "m", "a">>
Horror == <<"H", "o", "r", "r", "o", "r">>
Music == <<"M", "u", "s", "i", "c">>
Musical == <<"M", "u", "s", "i", "c", "a", "l">>
Western == <<"W", "e", "s", "t", "e", "r", "n">>
comedy == <<"c", "o", "m", "e", "d", "y">>

Date1994 == <<"1", "9", "9", "4", "-", "0", "6", "-", "3", "0">>
Date1999 == <<"1", "9", "9", "9", "-", "0", "1", "-", "0", "1">>
Date2001 == <<"2", "0", "0", "1", "-", "0", "5", "-", "0", "5">>
DateAbcd == <<"a", "b", "c", "d", "-", "0", "1", "-", "0", "1">>
DateEmpty == <<>>
DateDayFirst == <<"0", "1", "-", "0", "5", "-", "1", "9", "9", "9">>
DateYearOnly == <<"9", "8", "7">>

AnyTitle == <<"T">>

\* Lists of at most n elements of S.
ListsUpTo(S, n) == UNION {[1..k -> S] : k \in 0..n}

\* Movies with the given genres and dates; a movie may lack either key, not both.
Movies(genres, dates) ==
    {[genre |-> g, release_date |-> d] : g \in genres, d \in dates}
        \cup {[genre |-> g] : g \in genres}
        \cup {[release_date |-> d] : d \in dates}

\* Movies that carry both keys.
FullMovies(genres, dates) == {[genre |-> g, release_date |-> d] : g \in genres, d \in dates}

\* History entries: with a genre each, or without one.
Entries(genres) ==
    {[title |-> AnyTitle, genre |-> g] : g \in genres} \cup {[title |-> AnyTitle]}

OkFile(data) == [kind |-> "ok", data |-> data]

MissingFile == [kind |-> "missing", data |-> <<>>]

MalformedFile == [kind |-> "malformed", data |-> <<>>]

\* history.json: no user, or the one user HistoryUser with a list of entries.
HistoryUser == 12

UserIds == {1, HistoryUser}

Histories(entries, n) ==
    {<<>>} \cup {[key \in {Str(HistoryUser)} |-> h] : h \in ListsUpTo(entries, n)}

----------------------------------------------------------------------------
(* Requests against any small pair of files, keys missing or not *)

MaxMovies == 2

MaxHistory == 2

MainDates == {Date1999, DateAbcd, DateEmpty, DateDayFirst}

Init ==
    /\ moviesFile \in {MissingFile, MalformedFile}
          \cup {OkFile(m) : m \in ListsUpTo(Movies({Action, Drama}, MainDates), MaxMovies)}
    /\ historyFile \in {MissingFile, MalformedFile}
          \cup {OkFile(h) : h \in Histories(Entries({Action, Horror}), MaxHistory)}
    /\ response = NoResponse

Next ==
    \/ list_genres
    \/ popular_genres
    \/ genre_analysis
    \/ \E user_id \in UserIds : user_genre_analysis(user_id)

Spec == Init /\ [][Next]_vars

----------------------------------------------------------------------------
(* Requests against catalogs of up to six genres, every movie with both keys *)

MaxCatalog == 6

CatalogGenres == {Action, Drama, Music, Musical, Western, comedy}

InitCatalog ==
    /\ moviesFile \in {OkFile(m) : m \in ListsUpTo(FullMovies(CatalogGenres, {Date1999}), MaxCatalog)}
    /\ historyFile = MissingFile
    /\ response = NoResponse

NextCatalog == list_genres \/ popular_genres

SpecCatalog == InitCatalog /\ [][NextCatalog]_vars

----------------------------------------------------------------------------
(* Decade analysis of catalogs whose release dates vary or are missing *)

MaxDecadeMovies == 4

DecadeGenres == {Action, Drama, Music, comedy}

DecadeDates == {Date1994, Date2001, DateYearOnly, DateAbcd}

InitDecade ==
    /\ moviesFile \in
          {OkFile(m) : m \in ListsUpTo(FullMovies(DecadeGenres, DecadeDates)
                                          \cup {[genre |-> g] : g \in DecadeGenres},
                                       MaxDecadeMovies)}
    /\ historyFile = MissingFile
    /\ response = NoResponse

NextDecade == genre_analysis

SpecDecade == InitDecade /\ [][NextDecade]_vars

----------------------------------------------------------------------------
(* Per-user analysis: a catalog of up to four genres, a history of the user *)

MaxUserCatalog == 4

MaxUserHistory == 3

UserCatalogGenres == {Action, Drama, Music, Musical}

InitUser ==
    /\ moviesFile \in
          {OkFile(m) : m \in ListsUpTo(FullMovies(UserCatalogGenres, {Date1999}), MaxUserCatalog)}
    /\ historyFile \in {OkFile(h) : h \in Histories(Entries({Action, Horror}), MaxUserHistory)}
    /\ response = NoResponse

NextUser == \E user_id \in UserIds : user_genre_analysis(user_id)

SpecUser == InitUser /\ [][NextUser]_vars

----------------------------------------------------------------------------
(* Vocabulary of the properties *)

\* The catalog and the history the latest request was answered from.
movies == read_json_file(moviesFile)

history == read_json_file(historyFile)

Answered(endpoint) == response.request.endpoint = endpoint

Min(a, b) == IF a < b THEN a ELSE b

Range(seq) == {seq[i] : i \in 1..Len(seq)}

HasGenre(entry) == "genre" \in DOMAIN entry

\* The keys of the entries that have one, in list order.
GenresOf(entries) ==
    LET tagged == SelectSeq(entries, HasGenre)
    IN  [i \in 1..Len(tagged) |-> tagged[i].genre]

\* How often, and where first, a key occurs in a list of keys.
Occurrences(keys, key) == Cardinality({i \in 1..Len(keys) : keys[i] = key})

FirstIndex(keys, key) == CHOOSE i \in 1..Len(keys) : keys[i] = key /\ \A j \in 1..(i - 1) : keys[j] # key

\* key a ranks before key b: more occurrences, or as many and an earlier first one.
RanksBefore(keys, a, b) ==
    \/ Occurrences(keys, a) > Occurrences(keys, b)
    \/ /\ Occurrences(keys, a) = Occurrences(keys, b)
       /\ FirstIndex(keys, a) < FirstIndex(keys, b)

\* entries is the ranking of the keys cut to its first `limit` places, with the counts.
IsRankingOf(entries, keys, limit) ==
    /\ Len(entries) = Min(limit, Cardinality(Range(keys)))
    /\ \A i \in 1..Len(entries) :
          /\ entries[i].name \in Range(keys)
          /\ entries[i].count = Occurrences(keys, entries[i].name)
    /\ \A i, j \in 1..Len(entries) : i < j => RanksBefore(keys, entries[i].name, entries[j].name)
    /\ \A i \in 1..Len(entries) : \A key \in Range(keys) \ {entries[k].name : k \in 1..Len(entries)} :
          RanksBefore(keys, entries[i].name, key)

\* entries lists every key once, by name ascending, with the counts.
IsListingOf(entries, keys) ==
    /\ {entries[i].name : i \in 1..Len(entries)} = Range(keys)
    /\ \A i \in 1..Len(entries) : entries[i].count = Occurrences(keys, entries[i].name)
    /\ \A i \in 1..(Len(entries) - 1) : StrLess(entries[i].name, entries[i + 1].name)

RECURSIVE SumOf(_, _)
SumOf(entries, field) ==
    IF entries = <<>> THEN 0 ELSE Head(entries)[field] + SumOf(Tail(entries), field)

\* The release date reads as a year: the key is there and int() takes what precedes the first "-".
HasYear(movie) ==
    /\ "release_date" \in DOMAIN movie
    /\ ~Raised(Int_(Split(movie.release_date, "-")[1]))

YearOf(movie) == Int_(Split(movie.release_date, "-")[1]).val

----------------------------------------------------------------------------
(* C1 *)

\* C1: a movie whose release_date is missing, does not start with a number or has
\* another unexpected format is skipped by the decade analysis: the request succeeds,
\* the decade totals count exactly the movies whose date reads as a year, and the
\* top-level genres and total_movies still count every movie.  (Stated for catalogs
\* whose movies all have a genre.)  The code answers 500 when the key is missing.
C1_MalformedDateSkipped ==
    (Answered("/genres/analysis") /\ movies # <<>> /\ \A i \in 1..Len(movies) : HasGenre(movies[i]))
        => /\ response.status = 200
           /\ SumOf(response.body.decades, "total_movies")
                 = Cardinality({i \in 1..Len(movies) : HasYear(movies[i])})
           /\ IsListingOf(response.body.genres, GenresOf(movies))
           /\ response.body.total_movies = Len(movies)

----------------------------------------------------------------------------
(* C2 *)

\* C2: an entry without a genre is left out of the genre counts and aborts nothing:
\* every endpoint answers with success, and the genre list is the one of the entries
\* that have a genre.  (Stated for catalogs whose movies all have a release_date.)
\* The code answers 500 when a movie of the catalog has no genre.
C2_GenrelessTolerated ==
    (response # NoResponse /\ movies # <<>>
        /\ \A i \in 1..Len(movies) : "release_date" \in DOMAIN movies[i])
        => /\ response.status = 200
           /\ Answered("/genres") => IsListingOf(response.body.genres, GenresOf(movies))
           /\ Answered("/genres/analysis") => IsListingOf(response.body.genres, GenresOf(movies))

----------------------------------------------------------------------------
(* C3 *)

\* The per-user request was answered from a non-empty catalog and an empty history.
AnsweredWithoutHistory ==
    /\ Answered("/genres/user")
    /\ movies # <<>>
    /\ UserHistory(history, response.request.user_id) = <<>>

\* C3 as stated: a user whose history is missing or empty gets a success answer with
\* watched_movies = 0, empty genre_breakdown, top_genres and suggested_new_genres,
\* and a message.
C3_EmptyHistoryFields ==
    AnsweredWithoutHistory
        => /\ response.status = 200
           /\ {"watched_movies", "genre_breakdown", "top_genres",
               "suggested_new_genres", "message"} \subseteq DOMAIN response.body
           /\ response.body.watched_movies = 0
           /\ response.body.genre_breakdown = <<>>
           /\ response.body.top_genres = <<>>
           /\ response.body.suggested_new_genres = <<>>

\* C3 as amended: a user whose history is missing or empty gets a success answer
\* that holds exactly user_id, the message, an empty "genres" list and an empty
\* "recommendations" list.
C3_EmptyHistoryAnswer ==
    AnsweredWithoutHistory
        => /\ response.status = 200
           /\ DOMAIN response.body = {"user_id", "message", "genres", "recommendations"}
           /\ response.body.user_id = response.request.user_id
           /\ response.body.message = "No watch history found for this user"
           /\ response.body.genres = <<>>
           /\ response.body.recommendations = <<>>

\* A user that history.json does not name asked, while another user has a history.
C3_Witness ==
    /\ AnsweredWithoutHistory
    /\ Str(response.request.user_id) \notin DOMAIN history
    /\ UserHistory(history, HistoryUser) # <<>>
    /\ response.status = 200

----------------------------------------------------------------------------
(* C4 *)

\* C4 as stated: for an empty movie collection GET /genres succeeds with an empty
\* genres list and total_movies = 0.
C4_EmptyCatalogListed ==
    (Answered("/genres") /\ moviesFile = OkFile(<<>>))
        => /\ response.status = 200
           /\ response.body.genres = <<>>
           /\ response.body.total_movies = 0

\* C4 as amended: for an empty movie collection GET /genres answers 500 with the
\* error "Could not read movies data", as it does when the file cannot be read.
C4_EmptyCatalogRefused ==
    (Answered("/genres") /\ movies = <<>>) => response = CouldNotRead(ListRequest)

\* GET /genres was answered from a movies.json that holds the empty list.
C4_Witness == Answered("/genres") /\ moviesFile = OkFile(<<>>) /\ response.status = 500

----------------------------------------------------------------------------
(* C10 *)

\* C10: no request divides by a zero total: no answer is the ZeroDivisionError one,
\* percentages over the catalog appear only when the catalog is non-empty, those
\* over the history only when the history is non-empty, and every endpoint answers
\* an empty catalog with 500 "Could not read movies data".
C10_NoZeroDenominator ==
    response # NoResponse
        => /\ "error" \in DOMAIN response.body => response.body.error # ZeroDivisionError.msg
           /\ "popular_genres" \in DOMAIN response.body
                 => movies # <<>> /\ response.body.total_movies = Len(movies)
           /\ "genre_breakdown" \in DOMAIN response.body
                 => /\ UserHistory(history, response.request.user_id) # <<>>
                    /\ response.body.watched_movies
                          = Len(UserHistory(history, response.request.user_id))
           /\ movies = <<>> => response = CouldNotRead(response.request)

\* The most-popular request was answered from an empty catalog.
C10_Witness == Answered("/genres/popular") /\ movies = <<>> /\ response.status = 500

----------------------------------------------------------------------------
(* C5 *)

\* C5: for a non-empty catalog whose movies all have a genre, GET /genres lists each
\* distinct genre once, by name strictly ascending (code point order), with the
\* number of its movies; the counts sum to total_movies, the number of movies.
C5_GenresListed ==
    (Answered("/genres") /\ movies # <<>> /\ \A i \in 1..Len(movies) : HasGenre(movies[i]))
        => /\ response.status = 200
           /\ IsListingOf(response.body.genres, GenresOf(movies))
           /\ Len(response.body.genres) = Cardinality(Range(GenresOf(movies)))
           /\ SumOf(response.body.genres, "count") = response.body.total_movies
           /\ response.body.total_movies = Len(movies)

\* A catalog that starts with the lower-case genre, holds a genre twice and both
\* "Music" and "Musical", listed.
C5_Witness ==
    /\ Answered("/genres")
    /\ response.status = 200
    /\ movies[1].genre = comedy
    /\ {Music, Musical} \subseteq Range(GenresOf(movies))
    /\ \E i \in 1..Len(response.body.genres) : response.body.genres[i].count = 2

----------------------------------------------------------------------------
(* C6 *)

\* C6: for a non-empty catalog GET /genres/popular returns the first
\* min(5, distinct genres) places of the ranking of the genres by count descending,
\* equal counts in the order of their first movie.
C6_PopularRanked ==
    (Answered("/genres/popular") /\ movies # <<>>)
        => /\ response.status = 200
           /\ IsRankingOf(response.body.popular_genres, GenresOf(movies), 5)
           /\ Len(response.body.popular_genres) <= Min(5, Cardinality(Range(GenresOf(movies))))
           /\ \A i, j \in 1..Len(response.body.popular_genres) :
                 i < j => response.body.popular_genres[j].count
                             <= response.body.popular_genres[i].count

\* Six genres of one movie each, not in name order: the sixth is cut off.
C6_Witness ==
    /\ Answered("/genres/popular")
    /\ Cardinality(Range(GenresOf(movies))) = 6
    /\ Len(response.body.popular_genres) = 5
    /\ movies[1].genre = comedy

----------------------------------------------------------------------------
(* C7 *)

\* The per-user request was answered from a non-empty catalog and a non-empty history.
AnsweredWithHistory ==
    /\ Answered("/genres/user")
    /\ movies # <<>>
    /\ UserHistory(history, response.request.user_id) # <<>>

WatchedHistory == UserHistory(history, response.request.user_id)

\* p tenths of a percent is count / total to the nearest tenth.
IsPercentageOf(p, count, total) ==
    /\ 2 * (p * total - count * 1000) <= total
    /\ 2 * (count * 1000 - p * total) <= total

\* C7: for a user with a non-empty history, watched_movies is the length of the
\* history, genre-less entries included; genre_breakdown ranks every genre of the
\* history by count descending, equal counts in first-occurrence order; each
\* percentage is the count over watched_movies; the counts sum to the number of
\* entries that have a genre.
C7_BreakdownOverWatched ==
    AnsweredWithHistory
        => /\ response.status = 200
           /\ response.body.watched_movies = Len(WatchedHistory)
           /\ IsRankingOf(response.body.genre_breakdown, GenresOf(WatchedHistory),
                          Len(WatchedHistory))
           /\ \A i \in 1..Len(response.body.genre_breakdown) :
                 IsPercentageOf(response.body.genre_breakdown[i].percentage,
                                response.body.genre_breakdown[i].count,
                                response.body.watched_movies)
           /\ SumOf(response.body.genre_breakdown, "count") = Len(GenresOf(WatchedHistory))
           /\ SumOf(response.body.genre_breakdown, "count") <= response.body.watched_movies

\* Two entries of one genre and one without a genre: 2 of 3 is 66.7 percent.
C7_Witness ==
    /\ AnsweredWithHistory
    /\ response.status = 200
    /\ Len(WatchedHistory) = 3
    /\ \E i \in 1..3 : ~HasGenre(WatchedHistory[i])
    /\ Len(response.body.genre_breakdown) = 1
    /\ response.body.genre_breakdown[1].count = 2
    /\ response.body.genre_breakdown[1].percentage = 667

----------------------------------------------------------------------------
(* C8 *)

\* C8: for a user with a non-empty history, suggested_new_genres holds
\* min(3, number of catalog genres the user has not watched) distinct genres, each
\* a genre of the catalog and none a genre of the user's genre_breakdown.
C8_SuggestionsUnwatched ==
    AnsweredWithHistory
        => /\ response.status = 200
           /\ LET suggested == response.body.suggested_new_genres
                  watched == {response.body.genre_breakdown[i].name :
                                 i \in 1..Len(response.body.genre_breakdown)}
              IN  /\ Len(suggested)
                        = Min(3, Cardinality(Range(GenresOf(movies)) \ Range(GenresOf(WatchedHistory))))
                  /\ Cardinality(Range(suggested)) = Len(suggested)
                  /\ Range(suggested) \subseteq Range(GenresOf(movies))
                  /\ Range(suggested) \cap watched = {}

\* Four catalog genres, one of them watched besides a genre the catalog lacks:
\* all three unwatched genres are suggested.
C8_Witness ==
    /\ AnsweredWithHistory
    /\ response.status = 200
    /\ Cardinality(Range(GenresOf(movies))) = 4
    /\ Range(GenresOf(WatchedHistory)) = {Action, Horror}
    /\ Len(response.body.suggested_new_genres) = 3

----------------------------------------------------------------------------
(* C9 *)

DecadeValue(movie) == (YearOf(movie) \div 10) * 10

\* The i-th smallest element of a set of numbers.
NthSmallest(S, i) == CHOOSE x \in S : Cardinality({y \in S : y < x}) = i - 1

\* entries is the decade analysis the claim describes for the catalog: one entry
\* for each decade of the movies whose date reads as a year, ascending, labelled
\* "<decade>s", with the number of those movies and the first three places of
\* the ranking of their genres.
IsDecadeAnalysisOf(entries, catalog) ==
    LET dated == SelectSeq(catalog, HasYear)
        decades == {DecadeValue(dated[i]) : i \in 1..Len(dated)}
    IN  /\ Len(entries) = Cardinality(decades)
        /\ \A i \in 1..Len(entries) :
              LET decade == NthSmallest(decades, i)
                  inDecade == SelectSeq(dated, LAMBDA movie : DecadeValue(movie) = decade)
              IN  /\ entries[i].decade = Str(decade) \o <<"s">>
                  /\ entries[i].total_movies = Len(inDecade)
                  /\ IsRankingOf(entries[i].top_genres, GenresOf(inDecade), 3)
        /\ SumOf(entries, "total_movies") = Len(dated)

\* C9: for every catalog GET /genres/analysis emits one entry for each decade
\* floor(year / 10) * 10 of the movies with a parseable release_date, in ascending
\* order of the decade and labelled "<decade>s"; total_movies of an entry is the
\* number of parseable movies of the decade, and top_genres its at most 3 first
\* genres by count descending, equal counts in first-occurrence order.  The code
\* answers 500 when a movie has no release_date (C1).
C9_DecadesGrouped ==
    (Answered("/genres/analysis") /\ movies # <<>>)
        => /\ response.status = 200
           /\ IsDecadeAnalysisOf(response.body.decades, movies)

\* C9 where every movie has a release_date (which int() may refuse): the code
\* emits the decade analysis the claim describes.
C9_DecadesGroupedOfDated ==
    (\A i \in 1..Len(movies) : "release_date" \in DOMAIN movies[i]) => C9_DecadesGrouped

\* Four movies of four genres in one decade: the fourth genre is cut off.
C9_WitnessOfDated ==
    /\ Answered("/genres/analysis")
    /\ response.status = 200
    /\ \E i \in 1..Len(response.body.decades) :
          /\ response.body.decades[i].total_movies = 4
          /\ Len(response.body.decades[i].top_genres) = 3
          /\ SumOf(response.body.decades[i].top_genres, "count") = 3

====
